---- MODULE Spec2Model ----
(***************************************************************************)
(* Model of shed/stats/src/thread_local_aggregator.rs: the process-wide    *)
(* registry of ThreadMaps (STATS_AGGREGATOR), the aggregation pass over it *)
(* (StatsAggregator::aggregate), registration (create_map), the one-shot   *)
(* scheduler flag (STATS_SCHEDULED) with its two entry points, and the     *)
(* stream drivers that run one pass per tick.                              *)
(***************************************************************************)
EXTENDS Integers, Sequences, FiniteSets, TLC

\* ---------------------------------------------------------------- bounds
NThreads == 2      \* OS threads: callers, writers and executor workers
MaxOps == 6        \* calls and ticks, all together
MaxMaps == 2       \* create_map calls
MaxWrites == 2     \* thread-local writes
MaxTasks == 2      \* scheduler futures constructed
MaxTicks == 3      \* ticks the streams deliver, all together
MaxLiveOps == 4    \* calls, all together, where ticks are not bounded

Threads == 1..NThreads
MapIds == 1..MaxMaps
NoThread == 0
NoMap == 0
NoTask == 0

\* ---------------------------------------------------------------- state
VARIABLES
    STATS_SCHEDULED,  \* the AtomicBool of line 37
    vec,              \* the Vec inside STATS_AGGREGATOR's Mutex (line 38)
    holder,           \* the thread that holds that Mutex, or NoThread
    nmaps,            \* ThreadMaps allocated so far (Arc::new, line 98)
    live,             \* live[m]: threads that have an instance in ThreadMap m
    delta,            \* delta[m][u]: not yet aggregated writes of u's instance
    value,            \* value[m]: the aggregated (canonical) value of m
    tasks,            \* the scheduler futures constructed so far
    pc,               \* pc[t]: where thread t is
    loc,              \* loc[t]: the locals of the call thread t is in
    returned,         \* the create_map calls that returned, and their Arcs
    calls,            \* history: the schedule_stats_aggregation* calls
    written,          \* history: written[m] = sum of all writes to m
    late,             \* history: late[t][m] = written to m since t's pass was called
    nwrites,          \* history: number of writes so far
    quiet,            \* history: a pass with no racing write ended, no write since
    missed            \* history: a pass left a racing write behind, no write since

vars == <<STATS_SCHEDULED, vec, holder, nmaps, live, delta, value, tasks, pc,
          loc, returned, calls, written, late, nwrites, quiet, missed>>

\* The locals of a call. The last four are history kept for the pass a thread
\* is in: the registry and the instances as they were when the pass took the
\* lock, the ThreadMaps it has called for_each on, the instances it visited.
NoLoc == [map |-> NoMap, k |-> NoTask, i |-> 0, todo |-> {}, began |-> 0,
          vec0 |-> <<>>, live0 |-> [m \in MapIds |-> {}],
          maps |-> <<>>, seen |-> {}]
Zero == [m \in MapIds |-> 0]

Range(s) == {s[j] : j \in DOMAIN s}

RECURSIVE SumOver(_, _)
SumOver(f, S) ==
    IF S = {} THEN 0
    ELSE LET u == CHOOSE x \in S : TRUE IN f[u] + SumOver(f, S \ {u})

Init ==
    /\ STATS_SCHEDULED = FALSE
    /\ vec = <<>>
    /\ holder = NoThread
    /\ nmaps = 0
    /\ live = [m \in MapIds |-> {}]
    /\ delta = [m \in MapIds |-> [u \in Threads |-> 0]]
    /\ value = Zero
    /\ tasks = <<>>
    /\ pc = [t \in Threads |-> "idle"]
    /\ loc = [t \in Threads |-> NoLoc]
    /\ returned = <<>>
    /\ calls = <<>>
    /\ written = Zero
    /\ late = [t \in Threads |-> Zero]
    /\ nwrites = 0
    /\ quiet = FALSE
    /\ missed = FALSE

\* Ticks delivered so far by all streams together.
Ticks == SumOver([k \in DOMAIN tasks |-> tasks[k].pos], DOMAIN tasks)

\* Another call or tick fits the bound on the length of the run.
Budget == nmaps + nwrites + Len(tasks) + Ticks < MaxOps

\* ------------------------------------------------------------ create_map
\* (mutant) the new handle overwrites the last entry
push_overwrite(v, m) == IF v = <<>> THEN <<m>> ELSE [v EXCEPT ![Len(v)] = m]

\* (mutant) the new handle is inserted at the front
push_front(v, m) == <<m>> \o v

\* Vec::push
push(v, m) == Append(v, m)

\* let map = Arc::new(ThreadMap::default());
create_map(t) ==
    /\ pc[t] = "idle"
    /\ nmaps < MaxMaps
    /\ Budget
    /\ nmaps' = nmaps + 1
    /\ pc' = [pc EXCEPT ![t] = "cm_lock"]
    /\ loc' = [loc EXCEPT ![t] = [NoLoc EXCEPT !.map = nmaps + 1,
                                               !.began = Len(returned)]]
    /\ UNCHANGED <<STATS_SCHEDULED, vec, holder, live, delta, value, tasks,
                   returned, calls, written, late, nwrites, quiet, missed>>

\* (mutant) a reentrant Mutex: the thread that holds it is granted it again
create_map_lock_reentrant(t) ==
    /\ pc[t] = "cm_lock"
    /\ holder \in {NoThread, t}
    /\ holder' = t
    /\ pc' = [pc EXCEPT ![t] = "cm_push"]
    /\ UNCHANGED <<STATS_SCHEDULED, vec, nmaps, live, delta, value, tasks, loc,
                   returned, calls, written, late, nwrites, quiet, missed>>

\* (mutant) the call goes on whether or not the Mutex was free
create_map_lock_try(t) ==
    /\ pc[t] = "cm_lock"
    /\ holder' = t
    /\ pc' = [pc EXCEPT ![t] = "cm_push"]
    /\ UNCHANGED <<STATS_SCHEDULED, vec, nmaps, live, delta, value, tasks, loc,
                   returned, calls, written, late, nwrites, quiet, missed>>

\* let mut vec = STATS_AGGREGATOR.0.lock().expect("poisoned lock");
create_map_lock(t) ==
    /\ pc[t] = "cm_lock"
    /\ holder = NoThread
    /\ holder' = t
    /\ pc' = [pc EXCEPT ![t] = "cm_push"]
    /\ UNCHANGED <<STATS_SCHEDULED, vec, nmaps, live, delta, value, tasks, loc,
                   returned, calls, written, late, nwrites, quiet, missed>>

\* vec.push(map.clone()); map
\* (the guard `vec` is dropped on return and the Arc goes to the caller)
create_map_push(t) ==
    /\ pc[t] = "cm_push"
    /\ vec' = push(vec, loc[t].map)
    /\ holder' = NoThread
    /\ returned' = Append(returned, [map |-> loc[t].map, began |-> loc[t].began,
                                     held |-> TRUE])
    /\ pc' = [pc EXCEPT ![t] = "idle"]
    /\ loc' = [loc EXCEPT ![t] = NoLoc]
    /\ UNCHANGED <<STATS_SCHEDULED, nmaps, live, delta, value, tasks, calls,
                   written, late, nwrites, quiet, missed>>

\* The maps whose Arc a create_map call has handed out and the caller holds.
Handles == {returned[j].map : j \in {i \in DOMAIN returned : returned[i].held}}

\* ------------------------------------------------- thread-local write path
\* (mutant) the write goes through the registry lock
write_locked(t, m, d) ==
    /\ pc[t] = "idle"
    /\ m \in Handles
    /\ nwrites < MaxWrites
    /\ Budget
    /\ holder = NoThread
    /\ live' = [live EXCEPT ![m] = @ \cup {t}]
    /\ delta' = [delta EXCEPT ![m][t] = @ + d]
    /\ written' = [written EXCEPT ![m] = @ + d]
    /\ late' = [u \in Threads |->
                  IF pc[u] \in {"agg_lock", "agg_for", "agg_each"}
                  THEN [late[u] EXCEPT ![m] = @ + d] ELSE late[u]]
    /\ nwrites' = nwrites + 1
    /\ quiet' = FALSE
    /\ missed' = FALSE
    /\ UNCHANGED <<STATS_SCHEDULED, vec, holder, nmaps, value, tasks, pc, loc,
                   returned, calls>>

\* A thread gets (creating it on first use) its own instance in ThreadMap m
\* and records d on it; no registry lock is involved.
write(t, m, d) ==
    /\ pc[t] = "idle"
    /\ m \in Handles
    /\ nwrites < MaxWrites
    /\ Budget
    /\ live' = [live EXCEPT ![m] = @ \cup {t}]
    /\ delta' = [delta EXCEPT ![m][t] = @ + d]
    /\ written' = [written EXCEPT ![m] = @ + d]
    /\ late' = [u \in Threads |->
                  IF pc[u] \in {"agg_lock", "agg_for", "agg_each"}
                  THEN [late[u] EXCEPT ![m] = @ + d] ELSE late[u]]
    /\ nwrites' = nwrites + 1
    /\ quiet' = FALSE
    /\ missed' = FALSE
    /\ UNCHANGED <<STATS_SCHEDULED, vec, holder, nmaps, value, tasks, pc, loc,
                   returned, calls>>

\* ------------------------------------------------------- stream drivers
\* schedule_stats_on_stream(stream): the future stream.for_each(..).boxify(),
\* not polled yet. fin tells a finite stream (a test's) from an Interval,
\* which never ends; pos counts the ticks the stream has delivered, aggs the
\* closure calls that have returned.
schedule_stats_on_stream(fin) ==
    [kind |-> "old", fin |-> fin, pos |-> 0, aggs |-> 0, st |-> "new"]

\* schedule_stats_on_stream_preview(stream): stream.for_each(..).boxed()
schedule_stats_on_stream_preview(fin) ==
    [kind |-> "preview", fin |-> fin, pos |-> 0, aggs |-> 0, st |-> "new"]

\* A caller (a test) drives the aggregation from a finite stream of ticks.
on_stream ==
    /\ Len(tasks) < MaxTasks
    /\ Budget
    /\ tasks' = Append(tasks, schedule_stats_on_stream(TRUE))
    /\ UNCHANGED <<STATS_SCHEDULED, vec, holder, nmaps, live, delta, value, pc,
                   loc, returned, calls, written, late, nwrites, quiet, missed>>

on_stream_preview ==
    /\ Len(tasks) < MaxTasks
    /\ Budget
    /\ tasks' = Append(tasks, schedule_stats_on_stream_preview(TRUE))
    /\ UNCHANGED <<STATS_SCHEDULED, vec, holder, nmaps, live, delta, value, pc,
                   loc, returned, calls, written, late, nwrites, quiet, missed>>

\* --------------------------------------------- schedule_stats_aggregation
\* (mutant) AtomicBool::load: the flag is read and not set
swap_load(cur, val) == [old |-> cur, new |-> cur]

\* (mutant) AtomicBool::fetch_xor: the flag is flipped
swap_xor(cur, val) == [old |-> cur, new |-> (cur # val)]

\* AtomicBool::swap(val, Relaxed): one atomic read-modify-write.
swap(cur, val) == [old |-> cur, new |-> val]

\* (mutant) once a call has been made, its future is handed out again
scheduler_shared(ts) == IF calls # <<>> THEN calls[1].task ELSE Len(ts)

\* The future a scheduling call hands out: the one it has just constructed.
scheduler(ts) == Len(ts)

\* (mutant) the call runs a pass itself instead of handing the future out
schedule_stats_aggregation_eager(t) ==
    /\ pc[t] = "idle"
    /\ Len(tasks) < MaxTasks
    /\ Budget
    /\ tasks' = Append(tasks, schedule_stats_on_stream(FALSE))
    /\ pc' = [pc EXCEPT ![t] = "agg_lock"]
    /\ loc' = [loc EXCEPT ![t] = [NoLoc EXCEPT !.k = scheduler(tasks')]]
    /\ UNCHANGED <<STATS_SCHEDULED, vec, holder, nmaps, live, delta, value,
                   returned, calls, written, late, nwrites, quiet, missed>>

\* let scheduler = schedule_stats_on_stream(Interval::new(at, interval));
schedule_stats_aggregation(t) ==
    /\ pc[t] = "idle"
    /\ Len(tasks) < MaxTasks
    /\ Budget
    /\ tasks' = Append(tasks, schedule_stats_on_stream(FALSE))
    /\ pc' = [pc EXCEPT ![t] = "ssa_swap"]
    /\ loc' = [loc EXCEPT ![t] = [NoLoc EXCEPT !.k = scheduler(tasks'),
                                               !.began = Len(calls)]]
    /\ UNCHANGED <<STATS_SCHEDULED, vec, holder, nmaps, live, delta, value,
                   returned, calls, written, late, nwrites, quiet, missed>>

\* let scheduler = schedule_stats_on_stream_preview(interval_at(start, period));
schedule_stats_aggregation_preview(t) ==
    /\ pc[t] = "idle"
    /\ Len(tasks) < MaxTasks
    /\ Budget
    /\ tasks' = Append(tasks, schedule_stats_on_stream_preview(FALSE))
    /\ pc' = [pc EXCEPT ![t] = "ssap_swap"]
    /\ loc' = [loc EXCEPT ![t] = [NoLoc EXCEPT !.k = scheduler(tasks'),
                                               !.began = Len(calls)]]
    /\ UNCHANGED <<STATS_SCHEDULED, vec, holder, nmaps, live, delta, value,
                   returned, calls, written, late, nwrites, quiet, missed>>

\* if STATS_SCHEDULED.swap(true, Relaxed) { Err(StatsScheduledError(scheduler)) }
\* else { Ok(scheduler) }
schedule_swap(t, at, kind) ==
    /\ pc[t] = at
    /\ LET r == swap(STATS_SCHEDULED, TRUE) IN
         /\ STATS_SCHEDULED' = r.new
         /\ calls' = Append(calls, [kind |-> kind, ok |-> ~r.old,
                                    task |-> loc[t].k, began |-> loc[t].began])
    /\ pc' = [pc EXCEPT ![t] = "idle"]
    /\ loc' = [loc EXCEPT ![t] = NoLoc]
    /\ UNCHANGED <<vec, holder, nmaps, live, delta, value, tasks, returned,
                   written, late, nwrites, quiet, missed>>

schedule_stats_aggregation_swap(t) == schedule_swap(t, "ssa_swap", "old")

\* (mutant) the preview entry point swaps a flag of its own, which is set
\* once a preview call has swapped it
schedule_stats_aggregation_preview_swap_own(t) ==
    /\ pc[t] = "ssap_swap"
    /\ LET own == \E j \in DOMAIN calls : calls[j].kind = "preview"
           r == swap(own, TRUE) IN
         calls' = Append(calls, [kind |-> "preview", ok |-> ~r.old,
                                 task |-> loc[t].k, began |-> loc[t].began])
    /\ pc' = [pc EXCEPT ![t] = "idle"]
    /\ loc' = [loc EXCEPT ![t] = NoLoc]
    /\ UNCHANGED <<STATS_SCHEDULED, vec, holder, nmaps, live, delta, value,
                   tasks, returned, written, late, nwrites, quiet, missed>>

schedule_stats_aggregation_preview_swap(t) == schedule_swap(t, "ssap_swap", "preview")

\* ------------------------------------------------------ execution context
InCall(k) == \E u \in Threads : loc[u].k = k

\* spawn(s): the caller hands the future it received to the runtime.
spawn(k) ==
    /\ k \in DOMAIN tasks
    /\ tasks[k].st = "new"
    /\ ~InCall(k)
    /\ tasks' = [tasks EXCEPT ![k].st = "running"]
    /\ UNCHANGED <<STATS_SCHEDULED, vec, holder, nmaps, live, delta, value, pc,
                   loc, returned, calls, written, late, nwrites, quiet, missed>>


\* (mutant) the closure returns without calling aggregate
for_each_tick_noop(t, k) ==
    /\ pc[t] = "idle"
    /\ k \in DOMAIN tasks
    /\ tasks[k].st = "running"
    /\ ~InCall(k)
    /\ Ticks < MaxTicks
    /\ Budget
    /\ tasks' = [tasks EXCEPT ![k].pos = @ + 1]
    /\ UNCHANGED <<STATS_SCHEDULED, vec, holder, nmaps, live, delta, value, pc,
                   loc, returned, calls, written, late, nwrites, quiet, missed>>

\* for_each's closure runs on a tick: |_| { STATS_AGGREGATOR.aggregate(); .. }
for_each_tick(t, k) ==
    /\ pc[t] = "idle"
    /\ k \in DOMAIN tasks
    /\ tasks[k].st = "running"
    /\ ~InCall(k)
    /\ Ticks < MaxTicks
    /\ Budget
    /\ tasks' = [tasks EXCEPT ![k].pos = @ + 1]
    /\ pc' = [pc EXCEPT ![t] = "agg_lock"]
    /\ loc' = [loc EXCEPT ![t] = [NoLoc EXCEPT !.k = k]]
    /\ UNCHANGED <<STATS_SCHEDULED, vec, holder, nmaps, live, delta, value,
                   returned, calls, written, late, nwrites, quiet, missed>>

\* The stream has ended: the for_each future resolves.
for_each_end(k) ==
    /\ k \in DOMAIN tasks
    /\ tasks[k].st = "running"
    /\ ~InCall(k)
    /\ tasks[k].fin
    /\ tasks' = [tasks EXCEPT ![k].st = "done"]
    /\ UNCHANGED <<STATS_SCHEDULED, vec, holder, nmaps, live, delta, value, pc,
                   loc, returned, calls, written, late, nwrites, quiet, missed>>

\* ------------------------------------------- StatsAggregator::aggregate
\* (mutant) the loop starts at the second ThreadMap
aggregate_lock_skip(t) ==
    /\ pc[t] = "agg_lock"
    /\ holder = NoThread
    /\ holder' = t
    /\ pc' = [pc EXCEPT ![t] = "agg_for"]
    /\ loc' = [loc EXCEPT ![t].i = 2, ![t].vec0 = vec, ![t].live0 = live]
    /\ UNCHANGED <<STATS_SCHEDULED, vec, nmaps, live, delta, value, tasks,
                   returned, calls, written, late, nwrites, quiet, missed>>

\* let thread_maps = self.0.lock().expect("poisoned mutex");
aggregate_lock(t) ==
    /\ pc[t] = "agg_lock"
    /\ holder = NoThread
    /\ holder' = t
    /\ pc' = [pc EXCEPT ![t] = "agg_for"]
    /\ loc' = [loc EXCEPT ![t].i = 1, ![t].vec0 = vec, ![t].live0 = live]
    /\ UNCHANGED <<STATS_SCHEDULED, vec, nmaps, live, delta, value, tasks,
                   returned, calls, written, late, nwrites, quiet, missed>>

\* (mutant) the loop stops one element early
thread_maps_has_short(v, i) == i < Len(v)

\* for thread_map in &*thread_maps: whether the loop has an i-th element
thread_maps_has(v, i) == i <= Len(v)

\* ThreadMap::for_each: the instances it visits, those live when it starts
for_each(m) == live[m]

\* (mutant) the merge leaves the pending writes in place
stats_aggregate_keep(m, u) ==
    /\ value' = [value EXCEPT ![m] = @ + delta[m][u]]
    /\ delta' = delta

\* StatsManager::aggregate on the instance of thread u in map m: its pending
\* writes are merged into the canonical value.
stats_aggregate(m, u) ==
    /\ value' = [value EXCEPT ![m] = @ + delta[m][u]]
    /\ delta' = [delta EXCEPT ![m][u] = 0]

\* the loop takes its next ThreadMap and starts thread_map.for_each on it
aggregate_for(t) ==
    /\ pc[t] = "agg_for"
    /\ thread_maps_has(vec, loc[t].i)
    /\ LET S == for_each(vec[loc[t].i]) IN
         IF S = {}
         THEN /\ loc' = [loc EXCEPT ![t].i = @ + 1,
                                     ![t].maps = Append(@, vec[loc[t].i])]
              /\ pc' = pc
         ELSE /\ loc' = [loc EXCEPT ![t].todo = S,
                                     ![t].maps = Append(@, vec[loc[t].i])]
              /\ pc' = [pc EXCEPT ![t] = "agg_each"]
    /\ UNCHANGED <<STATS_SCHEDULED, vec, holder, nmaps, live, delta, value,
                   tasks, returned, calls, written, late, nwrites, quiet, missed>>

\* thread_map.for_each(|stats| stats.aggregate()): one instance is visited
aggregate_each(t, u) ==
    /\ pc[t] = "agg_each"
    /\ u \in loc[t].todo
    /\ stats_aggregate(vec[loc[t].i], u)
    /\ IF loc[t].todo = {u}
       THEN /\ loc' = [loc EXCEPT ![t].todo = {}, ![t].i = @ + 1,
                                   ![t].seen = @ \cup {<<vec[loc[t].i], u>>}]
            /\ pc' = [pc EXCEPT ![t] = "agg_for"]
       ELSE /\ loc' = [loc EXCEPT ![t].todo = @ \ {u},
                                   ![t].seen = @ \cup {<<vec[loc[t].i], u>>}]
            /\ pc' = pc
    /\ UNCHANGED <<STATS_SCHEDULED, vec, holder, nmaps, live, tasks, returned,
                   calls, written, late, nwrites, quiet, missed>>

\* the loop is over: the guard is dropped and the closure returns to for_each
aggregate_return(t) ==
    /\ pc[t] = "agg_for"
    /\ ~thread_maps_has(vec, loc[t].i)
    /\ holder' = NoThread
    /\ tasks' = [tasks EXCEPT ![loc[t].k].aggs = @ + 1]
    /\ quiet' = (quiet \/ late[t] = Zero)
    /\ missed' = (missed \/ \E m \in Range(vec), u \in Threads : delta[m][u] > 0)
    /\ late' = [late EXCEPT ![t] = Zero]
    /\ pc' = [pc EXCEPT ![t] = "idle"]
    /\ loc' = [loc EXCEPT ![t] = NoLoc]
    /\ UNCHANGED <<STATS_SCHEDULED, vec, nmaps, live, delta, value, returned,
                   calls, written, nwrites>>

\* ---------------------------------------------------------- specification
Amounts == {1, 2}

Next ==
    \/ \E t \in Threads : create_map(t)
    \/ \E t \in Threads : create_map_lock(t)
    \/ \E t \in Threads : create_map_push(t)
    \/ \E t \in Threads, m \in MapIds, d \in Amounts : write(t, m, d)
    \/ on_stream
    \/ on_stream_preview
    \/ \E t \in Threads : schedule_stats_aggregation(t)
    \/ \E t \in Threads : schedule_stats_aggregation_preview(t)
    \/ \E t \in Threads : schedule_stats_aggregation_swap(t)
    \/ \E t \in Threads : schedule_stats_aggregation_preview_swap(t)
    \/ \E k \in 1..MaxTasks : spawn(k)
    \/ \E t \in Threads, k \in 1..MaxTasks : for_each_tick(t, k)
    \/ \E k \in 1..MaxTasks : for_each_end(k)
    \/ \E t \in Threads : aggregate_lock(t)
    \/ \E t \in Threads : aggregate_for(t)
    \/ \E t, u \in Threads : aggregate_each(t, u)
    \/ \E t \in Threads : aggregate_return(t)

Spec == Init /\ [][Next]_vars

\* ------------------------------------------------- panics, lock poisoning
\* The state of the Mutex once a thread has panicked with its guard alive:
\* free, and poisoned for good (std::sync::Mutex; nothing clears the poison).
Poisoned == -1

\* vec.push panics (capacity overflow) with the guard `vec` alive: the guard
\* is dropped by the unwinding, which poisons the Mutex; the calling thread
\* is gone and no Arc is returned.
create_map_panic(t) ==
    /\ pc[t] = "cm_push"
    /\ holder' = Poisoned
    /\ pc' = [pc EXCEPT ![t] = "dead"]
    /\ loc' = [loc EXCEPT ![t] = NoLoc]
    /\ UNCHANGED <<STATS_SCHEDULED, vec, nmaps, live, delta, value, tasks,
                   returned, calls, written, late, nwrites, quiet, missed>>

\* stats.aggregate() panics inside thread_map.for_each, with the guard
\* `thread_maps` alive: the Mutex is poisoned, the panic ends the future (the
\* runtime catches it at the task boundary and the worker goes on).
aggregate_panic(t) ==
    /\ pc[t] = "agg_each"
    /\ holder' = Poisoned
    /\ tasks' = [tasks EXCEPT ![loc[t].k].st = "panicked"]
    /\ late' = [late EXCEPT ![t] = Zero]
    /\ pc' = [pc EXCEPT ![t] = "idle"]
    /\ loc' = [loc EXCEPT ![t] = NoLoc]
    /\ UNCHANGED <<STATS_SCHEDULED, vec, nmaps, live, delta, value, returned,
                   calls, written, nwrites, quiet, missed>>

\* (mutant) the poison is cleared: PoisonError::into_inner and go on
create_map_lock_recover(t) ==
    /\ pc[t] = "cm_lock"
    /\ holder = Poisoned
    /\ holder' = t
    /\ pc' = [pc EXCEPT ![t] = "cm_push"]
    /\ UNCHANGED <<STATS_SCHEDULED, vec, nmaps, live, delta, value, tasks, loc,
                   returned, calls, written, late, nwrites, quiet, missed>>

\* STATS_AGGREGATOR.0.lock() returns Err(PoisonError) and
\* .expect("poisoned lock") panics: nothing is pushed, nothing is returned.
create_map_lock_poisoned(t) ==
    /\ pc[t] = "cm_lock"
    /\ holder = Poisoned
    /\ pc' = [pc EXCEPT ![t] = "dead_poisoned"]
    /\ loc' = [loc EXCEPT ![t] = NoLoc]
    /\ UNCHANGED <<STATS_SCHEDULED, vec, holder, nmaps, live, delta, value,
                   tasks, returned, calls, written, late, nwrites, quiet, missed>>

\* self.0.lock() returns Err(PoisonError) and .expect("poisoned mutex")
\* panics: no ThreadMap is visited and the future ends with the panic.
aggregate_lock_poisoned(t) ==
    /\ pc[t] = "agg_lock"
    /\ holder = Poisoned
    /\ tasks' = [tasks EXCEPT ![loc[t].k].st = "poisoned"]
    /\ late' = [late EXCEPT ![t] = Zero]
    /\ pc' = [pc EXCEPT ![t] = "idle"]
    /\ loc' = [loc EXCEPT ![t] = NoLoc]
    /\ UNCHANGED <<STATS_SCHEDULED, vec, holder, nmaps, live, delta, value,
                   returned, calls, written, nwrites, quiet, missed>>

\* The program with panics under the lock.
NextPanic ==
    \/ Next
    \/ \E t \in Threads : create_map_panic(t)
    \/ \E t \in Threads : aggregate_panic(t)
    \/ \E t \in Threads : create_map_lock_poisoned(t)
    \/ \E t \in Threads : aggregate_lock_poisoned(t)

SpecPanic == Init /\ [][NextPanic]_vars

\* ------------------------------------------------------ dropped handles
\* (mutant) the registry holds a Weak: with the caller's Arc gone the
\* ThreadMap is gone from the registry
drop_map_unregister(j) ==
    /\ j \in DOMAIN returned
    /\ returned[j].held
    /\ holder = NoThread
    /\ returned' = [returned EXCEPT ![j].held = FALSE]
    /\ vec' = SubSeq(vec, 1, j - 1) \o SubSeq(vec, j + 1, Len(vec))
    /\ UNCHANGED <<STATS_SCHEDULED, holder, nmaps, live, delta, value, tasks,
                   pc, loc, calls, written, late, nwrites, quiet, missed>>

\* The caller of create_map drops the Arc it was returned. The registry holds
\* a clone of it (vec.push(map.clone())), so the ThreadMap and its instances
\* live on; only writes through that handle are over.
drop_map(j) ==
    /\ j \in DOMAIN returned
    /\ returned[j].held
    /\ returned' = [returned EXCEPT ![j].held = FALSE]
    /\ UNCHANGED <<STATS_SCHEDULED, vec, holder, nmaps, live, delta, value,
                   tasks, pc, loc, calls, written, late, nwrites, quiet, missed>>

\* The caller drops the future it was returned (in the Ok or in the Err)
\* without handing it to a runtime: `Ok(_) => {}`.
drop_task(k) ==
    /\ k \in DOMAIN tasks
    /\ tasks[k].st = "new"
    /\ ~InCall(k)
    /\ tasks' = [tasks EXCEPT ![k].st = "dropped"]
    /\ UNCHANGED <<STATS_SCHEDULED, vec, holder, nmaps, live, delta, value, pc,
                   loc, returned, calls, written, late, nwrites, quiet, missed>>

\* The program with callers that drop what they were returned.
NextDrop ==
    \/ Next
    \/ \E j \in MapIds : drop_map(j)
    \/ \E k \in 1..MaxTasks : drop_task(k)

SpecDrop == Init /\ [][NextDrop]_vars

\* ------------------------------------------------ ticks that never end
\* (mutant) the closure returns without calling aggregate
interval_tick_noop(t, k) ==
    /\ pc[t] = "idle"
    /\ k \in DOMAIN tasks
    /\ tasks[k].st = "running"
    /\ ~tasks[k].fin
    /\ ~InCall(k)
    /\ UNCHANGED vars

\* for_each's closure runs on a tick of an Interval. This is for_each_tick
\* without the count of the ticks, which for an Interval has no bound.
interval_tick(t, k) ==
    /\ pc[t] = "idle"
    /\ k \in DOMAIN tasks
    /\ tasks[k].st = "running"
    /\ ~tasks[k].fin
    /\ ~InCall(k)
    /\ pc' = [pc EXCEPT ![t] = "agg_lock"]
    /\ loc' = [loc EXCEPT ![t] = [NoLoc EXCEPT !.k = k]]
    /\ UNCHANGED <<STATS_SCHEDULED, vec, holder, nmaps, live, delta, value,
                   tasks, returned, calls, written, late, nwrites, quiet, missed>>

\* (mutant) the closure returns with the guard leaked (mem::forget)
interval_return_leak(t) ==
    /\ pc[t] = "agg_for"
    /\ ~thread_maps_has(vec, loc[t].i)
    /\ quiet' = (quiet \/ late[t] = Zero)
    /\ missed' = (missed \/ \E m \in Range(vec), u \in Threads : delta[m][u] > 0)
    /\ late' = [late EXCEPT ![t] = Zero]
    /\ pc' = [pc EXCEPT ![t] = "idle"]
    /\ loc' = [loc EXCEPT ![t] = NoLoc]
    /\ UNCHANGED <<STATS_SCHEDULED, vec, holder, nmaps, live, delta, value,
                   tasks, returned, calls, written, nwrites>>

\* The pass of an Interval's tick is over: aggregate_return without the
\* count of the passes.
interval_return(t) ==
    /\ pc[t] = "agg_for"
    /\ ~thread_maps_has(vec, loc[t].i)
    /\ holder' = NoThread
    /\ quiet' = (quiet \/ late[t] = Zero)
    /\ missed' = (missed \/ \E m \in Range(vec), u \in Threads : delta[m][u] > 0)
    /\ late' = [late EXCEPT ![t] = Zero]
    /\ pc' = [pc EXCEPT ![t] = "idle"]
    /\ loc' = [loc EXCEPT ![t] = NoLoc]
    /\ UNCHANGED <<STATS_SCHEDULED, vec, nmaps, live, delta, value, tasks,
                   returned, calls, written, nwrites>>

\* Another call fits the bound on the calls of a run with unbounded ticks.
LiveBudget == nmaps + nwrites + Len(tasks) < MaxLiveOps

\* The program run on Intervals: calls and writes are bounded, ticks are not.
NextLive ==
    \/ LiveBudget /\ \E t \in Threads : create_map(t)
    \/ \E t \in Threads : create_map_lock(t)
    \/ \E t \in Threads : create_map_push(t)
    \/ LiveBudget /\ \E t \in Threads, m \in MapIds, d \in Amounts : write(t, m, d)
    \/ LiveBudget /\ \E t \in Threads : schedule_stats_aggregation(t)
    \/ LiveBudget /\ \E t \in Threads : schedule_stats_aggregation_preview(t)
    \/ \E t \in Threads : schedule_stats_aggregation_swap(t)
    \/ \E t \in Threads : schedule_stats_aggregation_preview_swap(t)
    \/ \E k \in 1..MaxTasks : spawn(k)
    \/ \E t \in Threads, k \in 1..MaxTasks : interval_tick(t, k)
    \/ \E t \in Threads : aggregate_lock(t)
    \/ \E t \in Threads : aggregate_for(t)
    \/ \E t, u \in Threads : aggregate_each(t, u)
    \/ \E t \in Threads : interval_return(t)

\* A thread that is in a call takes its next step once that step can be
\* taken and stays so: threads run, nothing holds one up for ever.
Runs(t) ==
    /\ WF_vars(create_map_lock(t))
    /\ WF_vars(create_map_push(t))
    /\ WF_vars(schedule_stats_aggregation_swap(t))
    /\ WF_vars(schedule_stats_aggregation_preview_swap(t))
    /\ WF_vars(aggregate_lock(t))
    /\ WF_vars(aggregate_for(t))
    /\ WF_vars(\E u \in Threads : aggregate_each(t, u))
    /\ WF_vars(interval_return(t))

\* The Interval of a running future keeps ticking and the runtime polls the
\* future on a worker that is free.
Ticking(k) == WF_vars(\E t \in Threads : interval_tick(t, k))

\* The Mutex does not starve a waiter: a thread that waits for it while it
\* is released again and again gets it.
Served(t) ==
    /\ SF_vars(create_map_lock(t))
    /\ SF_vars(aggregate_lock(t))

SpecLive ==
    /\ Init /\ [][NextLive]_vars
    /\ \A t \in Threads : Runs(t)
    /\ \A k \in 1..MaxTasks : Ticking(k)

SpecFair == SpecLive /\ \A t \in Threads : Served(t)

\* ------------------------------------------------- reentrant callbacks
\* stats.aggregate(), called by the pass of thread t with the guard alive,
\* calls create_map: Arc::new(ThreadMap::default()), and then on to the lock
\* of line 99 on the thread that holds it.
callback_create_map(t) ==
    /\ pc[t] = "agg_each"
    /\ nmaps < MaxMaps
    /\ Budget
    /\ nmaps' = nmaps + 1
    /\ pc' = [pc EXCEPT ![t] = "cm_lock"]
    /\ loc' = [loc EXCEPT ![t].map = nmaps + 1, ![t].began = Len(returned)]
    /\ UNCHANGED <<STATS_SCHEDULED, vec, holder, live, delta, value,
                   tasks, returned, calls, written, late, nwrites, quiet, missed>>

\* Mutex::lock on the thread that holds the Mutex does not return: it blocks
\* for ever (no step) or it panics, which of the two the platform decides.
\* This is the panic: it unwinds through create_map and aggregate, the guard
\* of the pass is dropped and poisons the Mutex, the future ends.
relock_panic(t) ==
    /\ pc[t] = "cm_lock"
    /\ holder = t
    /\ holder' = Poisoned
    /\ tasks' = [tasks EXCEPT ![loc[t].k].st = "panicked"]
    /\ late' = [late EXCEPT ![t] = Zero]
    /\ pc' = [pc EXCEPT ![t] = "idle"]
    /\ loc' = [loc EXCEPT ![t] = NoLoc]
    /\ UNCHANGED <<STATS_SCHEDULED, vec, nmaps, live, delta, value, returned,
                   calls, written, nwrites, quiet, missed>>

\* The program with an aggregate() that calls back into create_map.
NextReentrant ==
    \/ NextPanic
    \/ \E t \in Threads : callback_create_map(t)
    \/ \E t \in Threads : relock_panic(t)

SpecReentrant == Init /\ [][NextReentrant]_vars

\* ----------------------------------------------- errors of the tick source
\* (mutant) the closure is run for the error too
for_each_err_pass(k) ==
    /\ k \in DOMAIN tasks
    /\ tasks[k].kind = "old"
    /\ tasks[k].st = "running"
    /\ ~InCall(k)
    /\ tasks' = [tasks EXCEPT ![k].st = "failed"]
    /\ \E t \in Threads :
          /\ pc[t] = "idle"
          /\ pc' = [pc EXCEPT ![t] = "agg_lock"]
          /\ loc' = [loc EXCEPT ![t] = [NoLoc EXCEPT !.k = k]]
    /\ UNCHANGED <<STATS_SCHEDULED, vec, holder, nmaps, live, delta, value,
                   returned, calls, written, late, nwrites, quiet, missed>>

\* The stream of an old-style future yields Err(e) (S::Error, for the
\* Interval a timer::Error): for_each does not call the closure and resolves
\* to Err(e); the stream is dropped with the future.
for_each_err(k) ==
    /\ k \in DOMAIN tasks
    /\ tasks[k].kind = "old"
    /\ tasks[k].st = "running"
    /\ ~InCall(k)
    /\ tasks' = [tasks EXCEPT ![k].st = "failed"]
    /\ UNCHANGED <<STATS_SCHEDULED, vec, holder, nmaps, live, delta, value, pc,
                   loc, returned, calls, written, late, nwrites, quiet, missed>>

\* The program with tick sources that can fail.
NextErr ==
    \/ Next
    \/ \E k \in 1..MaxTasks : for_each_err(k)

SpecErr == Init /\ [][NextErr]_vars

\* ================================================================ claims
InPass(t) == pc[t] \in {"agg_lock", "agg_for", "agg_each"}

\* C1: in the order in which the scheduling calls swap the flag, the first
\* call returns Ok and every later call returns the AlreadyScheduled error.
C1_Exclusivity ==
    \A j \in DOMAIN calls : calls[j].ok <=> (j = 1)

\* Two calls of schedule_stats_aggregation, the second begun after the first
\* returned: the first got Ok, the second Err.
C1_Witness ==
    /\ Len(calls) >= 2
    /\ calls[1].kind = "old" /\ calls[2].kind = "old"
    /\ calls[2].began >= 1
    /\ calls[1].ok /\ ~calls[2].ok

\* The calls that began while the flag was still false (no call had swapped).
RacingCalls == {j \in DOMAIN calls : calls[j].began = 0}

\* C2: of the calls that were begun while the flag was false, running
\* concurrently, exactly one returns Ok, whatever the interleaving.
C2_SingleFlight ==
    RacingCalls # {} =>
        Cardinality({j \in RacingCalls : calls[j].ok}) = 1

\* Two threads were inside the call at once, both begun on a false flag, and
\* both have returned.
C2_Witness ==
    /\ Cardinality(RacingCalls) >= 2
    /\ \E j \in RacingCalls : ~calls[j].ok

\* C3: the create_map calls that have returned each got a container of their
\* own, and the registry holds exactly one entry per returned container, in
\* the order of the returns: none is lost, none is doubled.
C3_NoLostRegistration ==
    /\ \A i, j \in DOMAIN returned :
          i # j => returned[i].map # returned[j].map
    /\ Len(vec) = Len(returned)
    /\ \A j \in DOMAIN returned : vec[j] = returned[j].map

\* Two create_map calls overlapped (the second to return began before the
\* first had returned) and both have completed.
C3_Witness ==
    /\ Len(returned) >= 2
    /\ returned[2].began = 0
    /\ \A t \in Threads : pc[t] = "idle"

\* The write of every thread to map m that no pass has merged yet.
Pending(m) == SumOver(delta[m], Threads)

\* C4: once a pass that no write raced with has returned, and until the next
\* write, the aggregated value of every registered container equals the sum
\* of all the writes made to it, by every thread, before that pass.
C4_AggregatedEqualsWrites ==
    quiet => \A m \in Range(vec) : value[m] = written[m]

\* Both threads have written to one container, at least two passes have
\* returned, the last with no write racing it, and the value is the sum.
C4_Witness ==
    /\ quiet
    /\ \E m \in Range(vec) :
          /\ live[m] = Threads
          /\ \A u \in Threads : delta[m][u] = 0
          /\ value[m] = written[m] /\ written[m] >= 3
    /\ \E k \in DOMAIN tasks : tasks[k].aggs >= 2

\* C5: after a pass that no write raced with has returned, and as long as no
\* write is made, no step of a further pass changes any aggregated value.
C5_Idempotent ==
    [][quiet => value' = value]_vars

\* A second pass, begun with no write since the first returned, has gone
\* over a container whose value the first pass had set.
C5_Witness ==
    /\ quiet
    /\ \E t \in Threads :
          /\ pc[t] = "agg_for" /\ loc[t].i > 1
          /\ value[vec[1]] > 0
          /\ live[vec[1]] # {}

\* The instances of ThreadMap vec[j] that the pass of thread t is done with.
Visited(t, j) ==
    IF j < loc[t].i THEN Threads
    ELSE IF j = loc[t].i /\ pc[t] = "agg_each" THEN Threads \ loc[t].todo
    ELSE {}

\* C6: no write is lost or counted twice (what was written is what has been
\* merged plus what is pending), and an instance a pass is done with holds
\* nothing but writes that raced with that pass: every write made before a
\* pass was called is merged by it, so a racing write is merged by that pass
\* or by the next.
C6_RacingWriteOnce ==
    /\ \A m \in MapIds : value[m] + Pending(m) = written[m]
    /\ \A t \in Threads :
          pc[t] \in {"agg_for", "agg_each"} =>
             \A j \in DOMAIN vec : \A u \in Visited(t, j) :
                 delta[vec[j]][u] <= late[t][vec[j]]

\* A pass left a racing write behind, no write has been made since, and a
\* later pass has returned: the value holds every write exactly once.
C6_Witness ==
    /\ missed /\ quiet
    /\ \E m \in Range(vec) : value[m] = written[m] /\ written[m] >= 2

\* A thread is in the closure call of a tick of task k.
Polling(k) == {t \in Threads : InPass(t) /\ loc[t].k = k}

\* C7: the driver runs one pass per tick, one after the other: the passes
\* that have returned are the ticks delivered, less the one in progress, and
\* the task is done only when the stream has ended and as many passes have
\* returned as the stream delivered ticks.
C7_OnePassPerTick ==
    \A k \in DOMAIN tasks :
        /\ Cardinality(Polling(k)) <= 1
        /\ tasks[k].pos = tasks[k].aggs + Cardinality(Polling(k))
        /\ tasks[k].st = "done" =>
              /\ tasks[k].fin
              /\ Polling(k) = {}
              /\ tasks[k].aggs = tasks[k].pos

\* The driver has run to the end of a stream of three ticks.
C7_Witness ==
    \E k \in DOMAIN tasks :
        /\ tasks[k].st = "done"
        /\ tasks[k].pos = 3 /\ tasks[k].aggs = 3

\* The future of the j-th scheduling call.
TaskOf(j) == tasks[calls[j].task]

\* C8: every scheduling call, Ok or Err, carries a future of its own, built
\* for that call on an Interval and of the call's kind; the futures of calls
\* still before the swap are distinct from them too. Each of them, once
\* run, makes one pass per tick of its own stream.
C8_FreshTaskPerCall ==
    /\ \A i, j \in DOMAIN calls : i # j => calls[i].task # calls[j].task
    /\ \A j \in DOMAIN calls :
          /\ calls[j].task \in DOMAIN tasks
          /\ TaskOf(j).kind = calls[j].kind
          /\ ~TaskOf(j).fin
          /\ TaskOf(j).pos = TaskOf(j).aggs + Cardinality(Polling(calls[j].task))
    /\ \A t \in Threads :
          pc[t] \in {"ssa_swap", "ssap_swap"} =>
             /\ loc[t].k \in DOMAIN tasks
             /\ tasks[loc[t].k].st = "new"
             /\ \A j \in DOMAIN calls : calls[j].task # loc[t].k
             /\ \A u \in Threads \ {t} : loc[u].k # loc[t].k

\* The future of the Ok call and the future carried by an Err are both
\* running and each has made a pass of its own: two loops with the flag set.
C8_Witness ==
    /\ STATS_SCHEDULED
    /\ \E i, j \in DOMAIN calls :
          /\ calls[i].ok /\ ~calls[j].ok
          /\ TaskOf(i).st = "running" /\ TaskOf(i).aggs >= 1
          /\ TaskOf(j).st = "running" /\ TaskOf(j).aggs >= 1

\* C9: every step leaves the registry as it is or appends one entry at its
\* end, and the only step that appends is the push of a create_map call,
\* which appends the container that call returns.
C9_AppendOnly ==
    [][\/ vec' = vec
       \/ \E t \in Threads :
             /\ pc[t] = "cm_push" /\ pc'[t] = "idle"
             /\ vec' = Append(vec, loc[t].map)
             /\ returned' = Append(returned, [map |-> loc[t].map,
                                              began |-> loc[t].began,
                                              held |-> TRUE])]_vars

\* The registry holds two containers, and a write, a scheduling call and a
\* pass have happened.
C9_Witness ==
    /\ Len(vec) = 2
    /\ nwrites >= 1
    /\ STATS_SCHEDULED
    /\ \E k \in DOMAIN tasks : tasks[k].aggs >= 1

\* C10: the flag is false until the first scheduling call swaps it and true
\* from then on: no step takes it from true to false, and the only step that
\* changes it is the swap of a scheduling call.
C10_FlagOneWay ==
    /\ [](STATS_SCHEDULED <=> calls # <<>>)
    /\ [][/\ STATS_SCHEDULED => STATS_SCHEDULED'
          /\ STATS_SCHEDULED' # STATS_SCHEDULED =>
                \E t \in Threads :
                    /\ pc[t] \in {"ssa_swap", "ssap_swap"}
                    /\ pc'[t] = "idle"]_vars

\* The flag is set, a second scheduling call has returned, and create_map,
\* a write and a pass have run since the flag was set.
C10_Witness ==
    /\ STATS_SCHEDULED
    /\ Len(calls) >= 2
    /\ Len(vec) >= 1
    /\ nwrites >= 1
    /\ \E j \in DOMAIN calls : TaskOf(j).aggs >= 1

\* C11: once a call has panicked while it held the registry lock, the lock
\* stays poisoned: no thread is ever inside create_map's or aggregate's
\* critical section again, the registry and the aggregated values stay as
\* they are, and every create_map or aggregate call that comes to the lock
\* leaves it by a panic.
C11_PoisonIsFatal ==
    /\ [](holder = Poisoned =>
             \A t \in Threads : pc[t] \notin {"cm_push", "agg_for", "agg_each"})
    /\ [][holder = Poisoned =>
             /\ holder' = Poisoned
             /\ vec' = vec /\ returned' = returned /\ value' = value
             /\ \A t \in Threads :
                   /\ (pc[t] = "cm_lock" /\ pc'[t] # "cm_lock") =>
                         pc'[t] = "dead_poisoned"
                   /\ (pc[t] = "agg_lock" /\ pc'[t] # "agg_lock") =>
                         /\ tasks'[loc[t].k].st = "poisoned"
                         /\ tasks'[loc[t].k].aggs = tasks[loc[t].k].aggs]_vars

\* A create_map call panicked under the lock; after it a create_map call and
\* a pass each came to the lock and panicked there, the registry untouched.
C11_Witness ==
    /\ holder = Poisoned
    /\ \E t \in Threads : pc[t] = "dead"
    /\ \E t \in Threads : pc[t] = "dead_poisoned"
    /\ \E k \in DOMAIN tasks : tasks[k].st = "poisoned" /\ tasks[k].aggs = 0
    /\ vec = <<>>

\* The threads inside the critical section of create_map or of aggregate.
CriticalSection == {t \in Threads : pc[t] \in {"cm_push", "agg_for", "agg_each"}}

\* C12: the thread that holds the registry lock is the one thread, if any,
\* that is between the lock and the return of create_map or of aggregate;
\* while a pass is in that section the registry is as it was when the pass
\* took the lock, the pass has gone over a prefix of it, and when the pass
\* returns it has called for_each on exactly those ThreadMaps, in order.
C12_LockHeldThroughout ==
    /\ [](CriticalSection = IF holder = NoThread THEN {} ELSE {holder})
    /\ [](\A t \in Threads :
             pc[t] \in {"agg_for", "agg_each"} =>
                /\ loc[t].vec0 = vec
                /\ Len(loc[t].maps) <= Len(vec)
                /\ loc[t].maps = SubSeq(vec, 1, Len(loc[t].maps)))
    /\ [][\A t \in Threads :
             (pc[t] = "agg_for" /\ pc'[t] = "idle") =>
                 loc[t].maps = loc[t].vec0 /\ vec' = loc[t].vec0]_vars

\* A pass is half way through a registry of one ThreadMap while a create_map
\* call, begun after the pass took the lock, waits for the lock with the
\* second ThreadMap.
C12_Witness ==
    \E t, u \in Threads :
        /\ pc[t] = "agg_each" /\ holder = t
        /\ Len(loc[t].vec0) = 1
        /\ pc[u] = "cm_lock" /\ loc[u].map = 2

\* C13: a pass calls aggregate only on instances that are live in a ThreadMap
\* that was in the registry when the pass took the lock; no call is on an
\* instance the pass has already visited; and when the pass returns it has
\* visited every instance that was live, when it took the lock, in any
\* ThreadMap a create_map call had returned, whether or not the caller
\* still holds the Arc.
C13_PassCoverage ==
    /\ [](\A t \in Threads : \A p \in loc[t].seen :
             /\ p[1] \in Range(loc[t].vec0)
             /\ p[2] \in live[p[1]])
    /\ [][\A t \in Threads :
             (pc[t] = "agg_each" /\ loc'[t] # loc[t]) =>
                 Cardinality(loc'[t].seen) = Cardinality(loc[t].seen) + 1]_vars
    /\ [][\A t \in Threads :
             (pc[t] = "agg_for" /\ pc'[t] = "idle") =>
                 \A j \in DOMAIN returned :
                     \A u \in loc[t].live0[returned[j].map] :
                         <<returned[j].map, u>> \in loc[t].seen]_vars

\* A pass is about to return: it has visited the instances of both threads
\* in a ThreadMap whose Arc the caller of create_map had dropped before the
\* pass took the lock.
C13_Witness ==
    \E t \in Threads, j \in DOMAIN returned :
        /\ pc[t] = "agg_for" /\ ~thread_maps_has(vec, loc[t].i)
        /\ ~returned[j].held
        /\ loc[t].live0[returned[j].map] = Threads
        /\ \A u \in Threads : <<returned[j].map, u>> \in loc[t].seen

\* C14: with a future running on an Interval that keeps ticking, pending
\* writes do not stay pending: whenever an instance of a registered
\* ThreadMap holds writes not yet merged, a later state has them merged; and
\* when a pass returns, what is still pending in a ThreadMap was written
\* after that pass was called, so the first pass called after a write has
\* merged it when it returns.
C14_EventualVisibility ==
    /\ \A m \in MapIds, u \in Threads :
          ((\E k \in DOMAIN tasks : tasks[k].st = "running")
              /\ m \in Range(vec) /\ delta[m][u] > 0)
          ~> (delta[m][u] = 0)
    /\ [][\A t \in Threads :
             (pc[t] = "agg_for" /\ pc'[t] = "idle") =>
                 \A m \in Range(vec) : Pending(m) <= late[t][m]]_vars

\* With a future running, a pass returned and left a write pending, and a
\* later pass has merged it: every ThreadMap has all its writes in its value.
C14_Witness ==
    /\ missed
    /\ \E k \in DOMAIN tasks : tasks[k].st = "running"
    /\ \A m \in MapIds : value[m] = written[m]
    /\ \E m \in Range(vec) : live[m] = Threads /\ written[m] >= 2

\* C15: a future that has not been handed to a runtime has taken no tick and
\* made no pass; a thread is in a pass only from the closure of a running
\* future, so a scheduling call, which only builds the future and swaps the
\* flag, runs none; as long as no future runs no value is aggregated; and
\* with the future of the Ok call dropped the flag is still set and every
\* later call is an Err.
C15_NothingUntilRun ==
    /\ \A k \in DOMAIN tasks :
          tasks[k].st \in {"new", "dropped"} =>
             tasks[k].pos = 0 /\ tasks[k].aggs = 0 /\ Polling(k) = {}
    /\ \A t \in Threads :
          InPass(t) => loc[t].k \in DOMAIN tasks /\ tasks[loc[t].k].st = "running"
    /\ (\A k \in DOMAIN tasks : tasks[k].st \in {"new", "dropped"}) =>
          value = Zero /\ holder \notin {t \in Threads : pc[t] # "cm_push"}
    /\ \A i \in DOMAIN calls :
          (calls[i].ok /\ TaskOf(i).st = "dropped") =>
             /\ STATS_SCHEDULED
             /\ \A j \in DOMAIN calls : j # i => ~calls[j].ok

\* The future of the Ok call was dropped and never run, a later call got an
\* Err, no future runs, and a write to a registered ThreadMap stays pending.
C15_Witness ==
    /\ \E i, j \in DOMAIN calls :
          /\ i < j /\ calls[i].ok /\ ~calls[j].ok
          /\ TaskOf(i).st = "dropped"
    /\ \A k \in DOMAIN tasks : tasks[k].st \in {"new", "dropped"}
    /\ \E m \in Range(vec) : Pending(m) > 0 /\ value[m] = 0

\* C16: a thread that is not inside a call and holds the handle of a
\* ThreadMap can write to its instance in any state, whoever holds the
\* registry lock and wherever the other threads are (bounds of the run
\* apart); and the write is one step that leaves the lock and every thread's
\* position as they are.
C16_WriteTakesNoLock ==
    /\ [](\A t \in Threads, m \in Handles, d \in Amounts :
             (pc[t] = "idle" /\ nwrites < MaxWrites /\ Budget) =>
                 ENABLED write(t, m, d))
    /\ [][nwrites' # nwrites =>
             holder' = holder /\ pc' = pc /\ vec' = vec]_vars

\* A pass holds the lock, and an instance it has already visited holds a
\* write again: the write was made while the lock was held.
C16_Witness ==
    \E u, t \in Threads, m \in MapIds :
        /\ holder = u /\ pc[u] \in {"agg_for", "agg_each"}
        /\ <<m, t>> \in loc[u].seen
        /\ delta[m][t] > 0

\* A create_map call, made from inside the pass of thread t, is at the lock
\* that t itself holds.
Relocking(t) == pc[t] = "cm_lock" /\ holder = t

\* C17: a create_map call made by an aggregate() callback on the thread of
\* the pass is never granted the lock: the step that takes it is not
\* enabled, and every step leaves the thread waiting, with the lock still
\* its own, the registry unchanged and the pass not returned, unless the
\* relock panics, which ends the call and the pass without a return and
\* poisons the lock.
C17_NotReentrant ==
    /\ [](\A t \in Threads : Relocking(t) => ~ENABLED create_map_lock(t))
    /\ [][\A t \in Threads :
             Relocking(t) =>
                /\ vec' = vec /\ returned' = returned
                /\ tasks'[loc[t].k].aggs = tasks[loc[t].k].aggs
                /\ \/ Relocking(t)' /\ loc'[t] = loc[t]
                   \/ /\ holder' = Poisoned /\ pc'[t] = "idle"
                      /\ tasks'[loc[t].k].st = "panicked"]_vars

\* The callback of a pass has called create_map: the thread waits for the
\* lock it holds, with the pass half done and its second ThreadMap not in
\* the registry, and no other thread is in a call.
C17_Witness ==
    \E t \in Threads :
        /\ Relocking(t)
        /\ loc[t].todo # {} /\ loc[t].map = 2 /\ Len(vec) = 1
        /\ \A u \in Threads \ {t} : pc[u] = "idle"

\* The next step of the call thread t is in.
Step(t) ==
    \/ create_map_lock(t)
    \/ create_map_push(t)
    \/ schedule_stats_aggregation_swap(t)
    \/ schedule_stats_aggregation_preview_swap(t)
    \/ aggregate_lock(t)
    \/ aggregate_for(t)
    \/ \E u \in Threads : aggregate_each(t, u)
    \/ interval_return(t)

OkCalls == {j \in DOMAIN calls : calls[j].ok}

\* C19: of all the scheduling calls, through either entry point, at most one
\* has returned Ok, and a call through either entry point that began after
\* an Ok had been returned has returned an Err.
C19_OneFlagForBoth ==
    /\ Cardinality(OkCalls) <= 1
    /\ \A i \in OkCalls : \A j \in DOMAIN calls :
          (calls[j].began >= i) => ~calls[j].ok
    /\ OkCalls # {} => STATS_SCHEDULED

\* A call through the old entry point returned Ok, and a call through the
\* preview one, begun after that, returned an Err.
C19_Witness ==
    \E i, j \in DOMAIN calls :
        /\ calls[i].ok /\ ~calls[j].ok
        /\ calls[j].began >= i
        /\ calls[i].kind = "old" /\ calls[j].kind = "preview"

\* C20: a future that has ended with an error of its tick source is of the
\* old kind, is in no pass and has made exactly as many passes as its
\* stream had delivered ticks; from then on it takes no tick and makes no
\* pass; and the flag, once set, is still set, so that a scheduling call
\* made after the failure of the Ok future gets an Err.
C20_ErrorEndsOldTask ==
    /\ [](\A k \in DOMAIN tasks :
             tasks[k].st = "failed" =>
                /\ tasks[k].kind = "old"
                /\ Polling(k) = {}
                /\ tasks[k].aggs = tasks[k].pos)
    /\ [][\A k \in DOMAIN tasks :
             tasks[k].st = "failed" => tasks'[k] = tasks[k]]_vars
    /\ [](\A i \in DOMAIN calls :
             TaskOf(i).st = "failed" =>
                /\ STATS_SCHEDULED
                /\ \A j \in DOMAIN calls : j > i => ~calls[j].ok)

\* The future of the Ok call made a pass for each of two ticks and then
\* ended with an error; the flag is set and a later call got an Err.
C20_Witness ==
    /\ STATS_SCHEDULED
    /\ \E i, j \in DOMAIN calls :
          /\ i < j /\ calls[i].ok /\ ~calls[j].ok
          /\ TaskOf(i).st = "failed"
          /\ TaskOf(i).pos = 2 /\ TaskOf(i).aggs = 2

====
